---- MODULE Spec2Model ----
(***************************************************************************)
(* Quote/fact acquisition layer of the earnings trading system:            *)
(*   - RateLimiter (src/ets/data/providers/rate_limiter.py)                *)
(*   - quote aggregation with memo and pull log (quotes_agg.py)            *)
(*                                                                         *)
(* Time.  The monotonic clock is discrete.  Every timestamp is kept as its *)
(* AGE, the number of ticks between the timestamp and the current clock    *)
(* value: a booking `buf.append(now)` made by a thread whose clock reading *)
(* is `lag` ticks old stores the age `lag`, and Tick adds one to every     *)
(* age.  For a thread with reading now = clock - lag and an entry          *)
(* ts = clock - age:   ts <= now - size   <=>   age >= lag + size.         *)
(* Ages are capped at AgeCap, beyond which no comparison of the code can   *)
(* tell them apart.                                                        *)
(***************************************************************************)
EXTENDS Integers, Sequences, FiniteSets, TLC

\* ------------------------------------------------------------------ bounds
\* window sizes in clock ticks (Window.size_sec of the two windows)
SecSize == 2
MinSize == 3
\* longest time, in ticks, a thread keeps a clock reading before using it
MaxLag == 1
\* largest cost passed to acquire
MaxCost == 2
\* largest reserve passed to the constructor
MaxReserve == 2
\* longest buffer the model books into
MaxBuf == 4
\* number of most recent booked tokens remembered by the history variable
TokKeep == 4
\* longest pull log: a call is made only while a whole chain still fits
MaxLog == 8
\* tokens fetch_factor books per provider before the callers stop
MaxBooked == 3
\* largest attempts, base and max_sleep passed to retry_with_backoff
MaxAttempts == 3
MaxBase == 3
MaxSleepArg == 4
\* largest price of a payload handed to _valid_bar, in units of 0.5
MaxPrice == 6
\* get_prices calls made on one registry, and symbols passed to one call
MaxCalls == 3
MaxSymbols == 2

Threads == {"t1", "t2"}
NoThread == "none"
\* the thread of a single caller
Caller == "t1"

AgeCap == MaxLag + MinSize

Max(a, b) == IF a >= b THEN a ELSE b
Min(a, b) == IF a <= b THEN a ELSE b

\* an optional int argument: <<>> is None, <<n>> is the int n
None == <<>>
Truthy(a) == a # None /\ a[1] # 0

PerSecondArgs == {None, <<1>>, <<2>>}
PerMinuteArgs == {None, <<0>>, <<3>>}
ReserveArgs == 0..MaxReserve

VARIABLES
  args,      \* constructor arguments [per_second, per_minute, reserve]
  st,        \* "new" | "ready" | "ValueError": outcome of __init__
  reserve,   \* self.reserve
  windows,   \* self._windows: sequence of [size_sec, capacity]
  buffers,   \* self._buffers: per window, the sequence of booked ages
  lock,      \* self._lock: the thread inside `with self._lock`, or NoThread
  pc,        \* per thread: position in acquire / get_stats; "idle" between
             \* calls, "raised" after a call that left with an exception
  now,       \* per thread: age of its `now = time.monotonic()` reading
  cost,      \* per thread: the cost argument of its acquire call
  bi,        \* per thread: index of the buffer the booking loop is at
  bj,        \* per thread: entries appended to that buffer so far
  tokens     \* history: the last booked tokens, [st, rt] = age of the
             \* booked timestamp, age of the instant acquire returned

lvars == <<args, st, reserve, windows, buffers, lock, pc, now, cost, bi, bj,
           tokens>>

VARIABLES
  REG,       \* _REG is set (set_registry was called)
  MEMO,      \* _MEMO: normalised symbol -> outcome (<<>> is None)
  PULL_LOG,  \* _PULL_LOG: sequence of [symbol, provider, ok, by]; `by` is
             \* history, the thread whose call appended the entry
  qpc,       \* per thread: position in fetch_quote_basic
  qsym,      \* per thread: s = symbol.upper().strip() of its call
  qout,      \* per thread: what its last call returned
  logStart,  \* per thread: length of _PULL_LOG when its call began
  later,     \* per thread: its call began after a call for the same symbol
             \* had completed
  tried,     \* per thread: names of the providers called by its call
  got,       \* per thread: what the provider called last handed back
  acquired,  \* per thread: the providers on whose RateLimiter an acquire
             \* returned during its call
  first      \* history: symbol -> outcome of the first completed call

qvars == <<REG, MEMO, PULL_LOG, qpc, qsym, qout, logStart, later, tried,
           got, acquired, first>>

VARIABLES
  rpc,       \* retry_with_backoff: "idle" | "try" (about to call) | "sleep"
  attempts,  \* its argument attempts
  base,      \* its argument base
  max_sleep, \* its argument max_sleep
  ri,        \* the loop variable i
  delay,     \* the local delay
  last_exc,  \* the local last_exc: <<>> or <<the exception caught last>>
  rcalls,    \* history: what each invocation of call() did, in order
  sleeps,    \* history: the durations handed to time.sleep, in order
  rout       \* what the call handed to its caller

rvars == <<rpc, attempts, base, max_sleep, ri, delay, last_exc, rcalls,
           sleeps, rout>>

VARIABLES
  env,       \* os.environ: variable name -> <<>> (unset) or <<value>>
  fpc,       \* fetch_factor: "idle" | "loop" (top of the for) | "call"
  factor,    \* its argument factor
  providers, \* the list _resolve_providers returned
  fi,        \* position of the for loop in providers
  booked,    \* provider -> tokens fetch_factor booked in its limiter
  taken,     \* provider -> tokens booked in its limiter, by whichever code
  invoked,   \* provider -> invocations of its adapter
  attempted, \* history: the providers attempted by the call, in order
  fout       \* what the call handed to its caller

fvars == <<env, fpc, factor, providers, fi, booked, taken, invoked, attempted,
           fout>>

VARIABLES
  fph,       \* per thread: phase of its fetch_factor(registry, "profile2", ..)
  inv        \* history: ages of the latest adapter invocations

VARIABLES
  vq,        \* _valid_bar: the payload q it is applied to
  vdone,     \* _valid_bar has returned
  vok        \* what it returned

vvars == <<vq, vdone, vok>>

VARIABLES
  view       \* the list get_pull_log last handed to the caller, <<>> if none

VARIABLES
  offline_mode,   \* ProviderRegistry.offline_mode
  offline_prices, \* ProviderRegistry._offline_prices: <<>> is None
  fixture,        \* the fixture file on disk
  reads,          \* history: reads of the fixture file
  net,            \* history: invocations of the network adapter yf.download
  gcalls,         \* history: get_prices calls
  gin,            \* the symbols of the last get_prices call
  gout            \* what it returned

gvars == <<offline_mode, offline_prices, fixture, reads, net, gcalls, gin,
           gout>>

yvars == <<vvars, view, gvars>>
xvars == <<rvars, fvars, fph, yvars>>
vars == <<lvars, qvars, xvars, inv>>

\* ------------------------------------------------------------- RateLimiter
Window(size_sec, capacity) == [size_sec |-> size_sec, capacity |-> capacity]

\* RateLimiter.__init__
RateLimiterInit ==
  /\ st = "new"
  /\ IF args.per_second = None /\ args.per_minute = None
       THEN /\ st' = "ValueError"
            /\ UNCHANGED <<reserve, windows, buffers>>
       ELSE LET w1 == IF Truthy(args.per_second)
                        THEN <<Window(SecSize, args.per_second[1])>> ELSE <<>>
                w2 == IF Truthy(args.per_minute)
                        THEN <<Window(MinSize, args.per_minute[1])>> ELSE <<>>
            IN /\ st' = "ready"
               /\ reserve' = Max(0, args.reserve)
               /\ windows' = w1 \o w2
               /\ buffers' = [i \in 1..Len(w1 \o w2) |-> <<>>]
  /\ UNCHANGED <<qvars, xvars, inv, args, lock, pc, now, cost, bi, bj, tokens>>

\* one buffer of _prune: `while buf and buf[0] <= cutoff: buf.popleft()`
RECURSIVE PruneBuf(_, _)
PruneBuf(buf, expired) ==
  IF buf # <<>> /\ buf[1] >= expired THEN PruneBuf(Tail(buf), expired) ELSE buf

\* _prune with a cutoff one tick too late: `cutoff = now - win.size_sec + 1`
pruneEarly(bufs, lag) ==
  [i \in 1..Len(bufs) |-> PruneBuf(bufs[i], lag + windows[i].size_sec - 1)]

\* _prune that skips every window but the last one
pruneLastOnly(bufs, lag) ==
  [i \in 1..Len(bufs) |->
     IF i = Len(bufs) THEN PruneBuf(bufs[i], lag + windows[i].size_sec)
     ELSE bufs[i]]

\* RateLimiter._prune for a thread whose reading is `lag` ticks old
prune(bufs, lag) ==
  [i \in 1..Len(bufs) |-> PruneBuf(bufs[i], lag + windows[i].size_sec)]

allowed(win) == Max(0, win.capacity - reserve)

\* RateLimiter._next_safe_time, windows i..n, relative to the caller's now:
\* [exc |-> TRUE] when buf[idx] raises IndexError, else [exc |-> FALSE,
\* t |-> t_safe - now]
RECURSIVE next_safe_time_from(_, _, _, _, _)
next_safe_time_from(i, earliest, bufs, lag, c) ==
  IF i > Len(bufs) THEN [exc |-> FALSE, t |-> earliest]
  ELSE LET buf == bufs[i]
           win == windows[i]
           used == Len(buf)
       IN IF c <= 0 \/ used + c <= allowed(win)
            THEN next_safe_time_from(i + 1, earliest, bufs, lag, c)
            ELSE LET need == used + c - allowed(win)
                     need_to_expire == IF need > Len(buf) THEN Len(buf) ELSE need
                     idx == need_to_expire - 1
                 IN IF Len(buf) = 0
                      THEN [exc |-> TRUE, t |-> earliest]
                      ELSE LET t_expire == lag + win.size_sec - buf[idx + 1]
                           IN next_safe_time_from(i + 1, Max(earliest, t_expire),
                                                  bufs, lag, c)

next_safe_time(bufs, lag, c) == next_safe_time_from(1, 0, bufs, lag, c)

\* the critical section entered without waiting for the lock
LockAcquireNoWait(t) == lock' = t

\* `with self._lock:` entered
LockAcquire(t) == lock = NoThread /\ lock' = t

\* the age of a timestamp one tick later
Older(a) == Min(AgeCap, a + 1)

Reading(t) == pc[t] \in {"a_lock", "a_check", "a_book", "s_lock", "s_read"}

\* the monotonic clock advances by one tick
Tick ==
  /\ st = "ready"
  /\ \A t \in Threads : Reading(t) => now[t] < MaxLag
  /\ buffers' = [i \in 1..Len(buffers) |->
                   [j \in 1..Len(buffers[i]) |-> Older(buffers[i][j])]]
  /\ now' = [t \in Threads |-> IF Reading(t) THEN now[t] + 1 ELSE now[t]]
  /\ LET aged == [j \in 1..Len(tokens) |->
                    [st |-> Min(MinSize, tokens[j].st + 1),
                     rt |-> Min(MinSize, tokens[j].rt + 1)]]
     IN tokens' = SelectSeq(aged, LAMBDA x : x.rt < MinSize)
  /\ inv' = SelectSeq([j \in 1..Len(inv) |-> Min(MinSize, inv[j] + 1)],
                      LAMBDA x : x < MinSize)
  /\ UNCHANGED <<qvars, xvars, args, st, reserve, windows, lock, pc, cost, bi, bj>>

Between(t) == pc[t] \in {"idle", "raised"}

\* acquire(cost) is called: `if cost < 1: return`, else enter the loop
AcquireCall(t, c) ==
  /\ st = "ready" /\ Between(t)
  /\ IF c < 1
       THEN /\ pc' = [pc EXCEPT ![t] = "idle"]
            /\ UNCHANGED cost
       ELSE /\ pc' = [pc EXCEPT ![t] = "a_top"]
            /\ cost' = [cost EXCEPT ![t] = c]
  /\ UNCHANGED <<qvars, xvars, inv, args, st, reserve, windows, buffers, lock, now, bi, bj,
                 tokens>>

\* top of `while True` (after the sleep, if any): now = time.monotonic()
AcquireReadNow(t) ==
  /\ pc[t] = "a_top"
  /\ pc' = [pc EXCEPT ![t] = "a_lock"]
  /\ now' = [now EXCEPT ![t] = 0]
  /\ UNCHANGED <<qvars, xvars, inv, args, st, reserve, windows, buffers, lock, cost, bi, bj,
                 tokens>>

AcquireLock(t) ==
  /\ pc[t] = "a_lock"
  /\ LockAcquire(t)
  /\ pc' = [pc EXCEPT ![t] = "a_check"]
  /\ UNCHANGED <<qvars, xvars, inv, args, st, reserve, windows, buffers, now, cost, bi, bj,
                 tokens>>

\* under the lock: self._prune(now); t_safe = self._next_safe_time(now, cost);
\* then either the IndexError leaves acquire, or the booking loop starts, or
\* the lock is released and the thread sleeps
AcquireCheck(t) ==
  /\ pc[t] = "a_check"
  /\ LET pruned == prune(buffers, now[t])
         r == next_safe_time(pruned, now[t], cost[t])
     IN /\ buffers' = pruned
        /\ IF r.exc
             THEN /\ pc' = [pc EXCEPT ![t] = "raised"]
                  /\ lock' = NoThread
                  /\ now' = [now EXCEPT ![t] = 0]
                  /\ cost' = [cost EXCEPT ![t] = 1]
             ELSE IF r.t <= 0
               THEN /\ \A i \in 1..Len(pruned) : Len(pruned[i]) + cost[t] <= MaxBuf
                    /\ pc' = [pc EXCEPT ![t] = "a_book"]
                    /\ UNCHANGED <<lock, now, cost>>
               ELSE /\ pc' = [pc EXCEPT ![t] = "a_top"]
                    /\ lock' = NoThread
                    /\ now' = [now EXCEPT ![t] = 0]
                    /\ UNCHANGED cost
  /\ UNCHANGED <<qvars, xvars, inv, args, st, reserve, windows, bi, bj, tokens>>

\* one `buf.append(now)` of the booking loops
AcquireAppend(t) ==
  /\ pc[t] = "a_book" /\ bi[t] <= Len(buffers)
  /\ buffers' = [buffers EXCEPT ![bi[t]] = Append(@, now[t])]
  /\ IF bj[t] + 1 = cost[t]
       THEN /\ bi' = [bi EXCEPT ![t] = @ + 1]
            /\ bj' = [bj EXCEPT ![t] = 0]
       ELSE /\ bj' = [bj EXCEPT ![t] = @ + 1]
            /\ UNCHANGED bi
  /\ UNCHANGED <<qvars, xvars, inv, args, st, reserve, windows, lock, pc, now, cost, tokens>>

LastOf(s, n) == IF Len(s) <= n THEN s ELSE SubSeq(s, Len(s) - n + 1, Len(s))

\* `return` after the booking loops: the lock is released, acquire returns
AcquireReturn(t) ==
  /\ pc[t] = "a_book" /\ bi[t] > Len(buffers)
  /\ pc' = [pc EXCEPT ![t] = "idle"]
  /\ lock' = NoThread
  /\ tokens' = LastOf(tokens \o [j \in 1..cost[t] |->
                                   [st |-> Min(MinSize, now[t]), rt |-> 0]],
                      TokKeep)
  /\ now' = [now EXCEPT ![t] = 0]
  /\ cost' = [cost EXCEPT ![t] = 1]
  /\ bi' = [bi EXCEPT ![t] = 1]
  /\ bj' = [bj EXCEPT ![t] = 0]
  /\ UNCHANGED <<qvars, xvars, inv, args, st, reserve, windows, buffers>>

\* get_stats is called: now = time.monotonic()
StatsCall(t) ==
  /\ st = "ready" /\ Between(t)
  /\ pc' = [pc EXCEPT ![t] = "s_lock"]
  /\ now' = [now EXCEPT ![t] = 0]
  /\ UNCHANGED <<qvars, xvars, inv, args, st, reserve, windows, buffers, lock, cost, bi, bj,
                 tokens>>

StatsLock(t) ==
  /\ pc[t] = "s_lock"
  /\ LockAcquire(t)
  /\ pc' = [pc EXCEPT ![t] = "s_read"]
  /\ UNCHANGED <<qvars, xvars, inv, args, st, reserve, windows, buffers, now, cost, bi, bj,
                 tokens>>

\* the `used` of every window, as get_stats reports it
Used(bufs) == [i \in 1..Len(bufs) |-> Len(bufs[i])]

\* under the lock: self._prune(now), then the windows are read and returned
StatsRead(t) ==
  /\ pc[t] = "s_read"
  /\ buffers' = prune(buffers, now[t])
  /\ pc' = [pc EXCEPT ![t] = "idle"]
  /\ lock' = NoThread
  /\ now' = [now EXCEPT ![t] = 0]
  /\ UNCHANGED <<qvars, xvars, inv, args, st, reserve, windows, cost, bi, bj, tokens>>

ThreadStep(t) ==
  \/ \E c \in 0..MaxCost : AcquireCall(t, c)
  \/ AcquireReadNow(t)
  \/ AcquireLock(t)
  \/ AcquireCheck(t)
  \/ AcquireAppend(t)
  \/ AcquireReturn(t)
  \/ StatsCall(t)
  \/ StatsLock(t)
  \/ StatsRead(t)

\* -------------------------------------------------------------- quotes_agg
\* symbols are sequences of characters
RawSymbols == {<<"a">>, <<" ", "A">>}

UpperChar(c) == CASE c = "a" -> "A" [] c = "b" -> "B" [] OTHER -> c
upper(s) == [i \in 1..Len(s) |-> UpperChar(s[i])]

RECURSIVE lstrip(_)
lstrip(s) == IF s # <<>> /\ s[1] = " " THEN lstrip(Tail(s)) ELSE s
RECURSIVE rstrip(_)
rstrip(s) ==
  IF s # <<>> /\ s[Len(s)] = " " THEN rstrip(SubSeq(s, 1, Len(s) - 1)) ELSE s
strip(s) == rstrip(lstrip(s))

\* the provider chain of fetch_quote_basic
Chain == <<"finnhub", "yahoo_direct", "yfinance", "stooq">>

Bar(o, h, l, c) == [open |-> o, high |-> h, low |-> l, last |-> c]

\* what a provider can hand back: nothing, or one of these bars (the volume,
\* which no decision reads, is left out; prices are whole numbers)
Bars == {Bar(10, 11, 10, 11), Bar(10, 10, 9, 9), Bar(10, 5, 10, 7)}
Payloads == {<<>>} \cup {<<b>> : b \in Bars}

\* finnhub answers with the keys o, h, l, c
FhQuote(b) == [o |-> b.open, h |-> b.high, l |-> b.low, c |-> b.last]
FinnhubAnswers == {<<>>} \cup {<<FhQuote(b)>> : b \in Bars}

\* _valid_bar; for o > 0, (h - l) / o < 0.2 is 5 * (h - l) < o
\* the validator without its `if l > h` test
valid_bar_unordered(q) ==
  LET o == q.open h == q.high l == q.low c == q.last
  IN IF o <= 0 \/ h <= 0 \/ l <= 0 \/ c <= 0 THEN FALSE
     ELSE 5 * (h - l) < o

valid_bar(q) ==
  LET o == q.open h == q.high l == q.low c == q.last
  IN IF o <= 0 \/ h <= 0 \/ l <= 0 \/ c <= 0 THEN FALSE
     ELSE IF l > h THEN FALSE
     ELSE 5 * (h - l) < o

\* _log that records successes only
log_ok_only(L, symbol, provider, ok, by) ==
  IF ok THEN Append(L, [symbol |-> strip(upper(symbol)), provider |-> provider,
                        ok |-> 1, by |-> by])
        ELSE L

\* _log (latency and the always empty note are left out)
log(L, symbol, provider, ok, by) ==
  Append(L, [symbol |-> strip(upper(symbol)), provider |-> provider,
             ok |-> IF ok THEN 1 ELSE 0, by |-> by])

\* set_registry
set_registry ==
  /\ ~REG
  /\ REG' = TRUE
  /\ UNCHANGED <<lvars, xvars, inv, MEMO, PULL_LOG, qpc, qsym, qout, logStart, later,
                 tried, got, acquired, first>>

\* the value pct_change_today computes from q, as the fraction <<num, den>>
pct_of(q) ==
  IF q = <<>> THEN <<0, 1>>
  ELSE IF q[1].open = 0 THEN <<0, 1>>
  ELSE <<(q[1].last - q[1].open) * 100, q[1].open>>

\* what a call handed to its caller: fetch_quote_basic returns q, and
\* pct_change_today, which is `q = fetch_quote_basic(symbol)` followed by
\* the arithmetic of pct_of, returns pct_of(q)
Returned(v) == [kind |-> "ret", q |-> v]
Raised == [kind |-> "exc", q |-> <<>>]
Running == [kind |-> "none", q |-> <<>>]

\* the history of first outcomes after a call for s returned v
FirstAfter(s, v) ==
  IF s \in DOMAIN first THEN first
  ELSE [x \in DOMAIN first \cup {s} |-> IF x = s THEN v ELSE first[x]]

\* a memo that is never written
MemoUnwritten(s, v) == MEMO

MemoAfter(s, v) ==
  [x \in DOMAIN MEMO \cup {s} |-> IF x = s THEN v ELSE MEMO[x]]

\* a fetch_quote_basic that waits while another call for the same symbol
\* is in flight
FetchCallSingleFlight(t, symbol) ==
  /\ qpc[t] = "idle"
  /\ \A u \in Threads \ {t} :
       qpc[u] = "idle" \/ qsym[u] # strip(upper(symbol))
  /\ Len(PULL_LOG) + Len(Chain) <= MaxLog
  /\ LET s == strip(upper(symbol))
     IN /\ qsym' = [qsym EXCEPT ![t] = s]
        /\ later' = [later EXCEPT ![t] = s \in DOMAIN first]
        /\ IF s \in DOMAIN MEMO
             THEN /\ qout' = [qout EXCEPT ![t] = Returned(MEMO[s])]
                  /\ first' = FirstAfter(s, MEMO[s])
                  /\ UNCHANGED qpc
             ELSE /\ qout' = [qout EXCEPT ![t] = Running]
                  /\ qpc' = [qpc EXCEPT ![t] = "finnhub"]
                  /\ UNCHANGED first
  /\ logStart' = [logStart EXCEPT ![t] = Len(PULL_LOG)]
  /\ tried' = [tried EXCEPT ![t] = <<>>]
  /\ got' = [got EXCEPT ![t] = <<>>]
  /\ acquired' = [acquired EXCEPT ![t] = <<>>]
  /\ UNCHANGED <<lvars, xvars, inv, REG, MEMO, PULL_LOG>>

\* fetch_quote_basic(symbol) is called, directly or by pct_change_today:
\* s = symbol.upper().strip(); `if s in _MEMO: return _MEMO[s]`
FetchCall(t, symbol) ==
  /\ qpc[t] = "idle"
  /\ Len(PULL_LOG) + Len(Chain) <= MaxLog
  /\ LET s == strip(upper(symbol))
     IN /\ qsym' = [qsym EXCEPT ![t] = s]
        /\ later' = [later EXCEPT ![t] = s \in DOMAIN first]
        /\ IF s \in DOMAIN MEMO
             THEN /\ qout' = [qout EXCEPT ![t] = Returned(MEMO[s])]
                  /\ first' = FirstAfter(s, MEMO[s])
                  /\ UNCHANGED qpc
             ELSE /\ qout' = [qout EXCEPT ![t] = Running]
                  /\ qpc' = [qpc EXCEPT ![t] = "finnhub"]
                  /\ UNCHANGED first
  /\ logStart' = [logStart EXCEPT ![t] = Len(PULL_LOG)]
  /\ tried' = [tried EXCEPT ![t] = <<>>]
  /\ got' = [got EXCEPT ![t] = <<>>]
  /\ acquired' = [acquired EXCEPT ![t] = <<>>]
  /\ UNCHANGED <<lvars, xvars, inv, REG, MEMO, PULL_LOG>>

\* q = _from_finnhub(s); if q: _MEMO[s] = q; return q
\* fh_quote is finnhub_client.quote, whose _get starts with
\* `reg["limiter"].acquire()` before the request is sent
\* `answer` is what fh_quote returns, `raises` whether it raises instead
FromFinnhub(t, answer, raises) ==
  /\ qpc[t] = "finnhub"
  /\ IF ~REG
       THEN /\ qpc' = [qpc EXCEPT ![t] = "yahoo_direct"]
            /\ UNCHANGED <<MEMO, PULL_LOG, qout, tried, got, first>>
       ELSE IF raises
       THEN /\ qpc' = [qpc EXCEPT ![t] = "idle"]
            /\ qout' = [qout EXCEPT ![t] = Raised]
            /\ tried' = [tried EXCEPT ![t] = Append(@, "finnhub")]
            /\ got' = [got EXCEPT ![t] = <<>>]
            /\ UNCHANGED <<MEMO, PULL_LOG, first>>
       ELSE IF answer = <<>>
       THEN /\ PULL_LOG' = log(PULL_LOG, qsym[t], "finnhub", FALSE, t)
            /\ qpc' = [qpc EXCEPT ![t] = "yahoo_direct"]
            /\ tried' = [tried EXCEPT ![t] = Append(@, "finnhub")]
            /\ got' = [got EXCEPT ![t] = <<>>]
            /\ UNCHANGED <<MEMO, qout, first>>
       ELSE LET q == answer[1]
                out == Bar(q.o, q.h, q.l, q.c)
                ok == valid_bar(out)
            IN /\ PULL_LOG' = log(PULL_LOG, qsym[t], "finnhub", ok, t)
               /\ tried' = [tried EXCEPT ![t] = Append(@, "finnhub")]
               /\ got' = [got EXCEPT ![t] = <<out>>]
               /\ IF ok
                    THEN /\ MEMO' = MemoAfter(qsym[t], <<out>>)
                         /\ qout' = [qout EXCEPT ![t] = Returned(<<out>>)]
                         /\ first' = FirstAfter(qsym[t], <<out>>)
                         /\ qpc' = [qpc EXCEPT ![t] = "idle"]
                    ELSE /\ qpc' = [qpc EXCEPT ![t] = "yahoo_direct"]
                         /\ UNCHANGED <<MEMO, qout, first>>
  /\ acquired' = IF REG THEN [acquired EXCEPT ![t] = Append(@, "finnhub")]
                      ELSE acquired
  /\ UNCHANGED <<lvars, xvars, inv, REG, qsym, logStart, later>>

\* `ok = bool(q and _valid_bar(q))` that leaves the validation out
OkAny(q) == q # <<>>

\* ok = bool(q and _valid_bar(q))
Ok(q) == q # <<>> /\ valid_bar(q[1])

\* q = provider(s); ok = bool(q and _valid_bar(q)); _log(s, provider, ok, ..);
\* if ok: _MEMO[s] = q; return q      -- and after the last provider:
\* _MEMO[s] = None; return None
FromProvider(t, provider, q, nextpc) ==
  /\ qpc[t] = provider
  /\ LET ok == Ok(q)
     IN /\ PULL_LOG' = log(PULL_LOG, qsym[t], provider, ok, t)
        /\ tried' = [tried EXCEPT ![t] = Append(@, provider)]
        /\ got' = [got EXCEPT ![t] = q]
        /\ IF ok
             THEN /\ MEMO' = MemoAfter(qsym[t], q)
                  /\ qout' = [qout EXCEPT ![t] = Returned(q)]
                  /\ first' = FirstAfter(qsym[t], q)
                  /\ qpc' = [qpc EXCEPT ![t] = "idle"]
             ELSE IF nextpc = "idle"
             THEN /\ MEMO' = MemoAfter(qsym[t], <<>>)
                  /\ qout' = [qout EXCEPT ![t] = Returned(<<>>)]
                  /\ first' = FirstAfter(qsym[t], <<>>)
                  /\ qpc' = [qpc EXCEPT ![t] = "idle"]
             ELSE /\ qpc' = [qpc EXCEPT ![t] = nextpc]
                  /\ UNCHANGED <<MEMO, qout, first>>
  /\ UNCHANGED <<lvars, xvars, inv, REG, qsym, logStart, later, acquired>>

FromYahooDirect(t, q) == FromProvider(t, "yahoo_direct", q, "yfinance")
FromYfinance(t, q) == FromProvider(t, "yfinance", q, "stooq")
FromStooq(t, q) == FromProvider(t, "stooq", q, "idle")

QuoteStep(t) ==
  \/ \E symbol \in RawSymbols : FetchCall(t, symbol)
  \/ \E answer \in FinnhubAnswers : \E raises \in BOOLEAN : FromFinnhub(t, answer, raises)
  \/ \E q \in Payloads : FromYahooDirect(t, q)
  \/ \E q \in Payloads : FromYfinance(t, q)
  \/ \E q \in Payloads : FromStooq(t, q)

\* ---------------------------------------------------------------- fetchers
\* An environment value or an override list is a string, kept as the
\* sequence of its pieces: a blank " ", a comma ",", or a word (a run of
\* other characters).
Words == {"finnhub", "yahoo", "stooq", "Yahoo", "bogus"}

\* str.lower, piece by piece
lower(s) == [i \in 1..Len(s) |-> IF s[i] = "Yahoo" THEN "yahoo" ELSE s[i]]

\* str.split(",")
RECURSIVE split(_)
split(s) ==
  IF \A i \in 1..Len(s) : s[i] # ","
    THEN <<s>>
    ELSE LET k == CHOOSE i \in 1..Len(s) :
                    s[i] = "," /\ \A j \in 1..(i - 1) : s[j] # ","
         IN <<SubSeq(s, 1, k - 1)>> \o split(SubSeq(s, k + 1, Len(s)))

\* the adapters never raise: each wraps its client call in
\* `try: ... except Exception: return None`
FACTOR_POLICY ==
  [profile2 |->
     [providers |-> <<[name |-> "finnhub", fn |-> "_fh_profile2"]>>,
      cost |-> 1, retries |-> 3],
   quote |->
     [providers |-> <<[name |-> "yahoo", fn |-> "_yh_quote"],
                      [name |-> "finnhub", fn |-> "_fh_quote"],
                      [name |-> "stooq", fn |-> "_stooq_quote"],
                      [name |-> "yahoo", fn |-> "_yh_quote"],
                      [name |-> "finnhub", fn |-> "_fh_quote"],
                      [name |-> "stooq", fn |-> "_stooq_quote"],
                      [name |-> "finnhub", fn |-> "_fh_quote"],
                      [name |-> "yahoo", fn |-> "_yh_quote"],
                      [name |-> "stooq", fn |-> "_stooq_quote"]>>,
      cost |-> 1, retries |-> 3]]

\* a lookup that falls back to the policy of "quote"
PolicyGetOrQuote(f) ==
  IF f \in DOMAIN FACTOR_POLICY THEN <<FACTOR_POLICY[f]>>
  ELSE <<FACTOR_POLICY["quote"]>>

\* FACTOR_POLICY.get(factor): <<>> is None
PolicyGet(f) ==
  IF f \in DOMAIN FACTOR_POLICY THEN <<FACTOR_POLICY[f]>> ELSE <<>>

Factors == {"profile2", "quote", "Quote", "sentiment"}

\* f"ETS_{factor.upper()}_PROVIDERS"
FactorKey(f) ==
  CASE f = "profile2" -> "ETS_PROFILE2_PROVIDERS"
    [] f \in {"quote", "Quote"} -> "ETS_QUOTE_PROVIDERS"
    [] OTHER -> "ETS_SENTIMENT_PROVIDERS"

EnvKeys == {"ETS_PROFILE2_PROVIDERS", "ETS_QUOTE_PROVIDERS", "ETS_PROVIDERS"}

\* os.getenv(key): <<>> when unset, else <<the string>>
getenv(e, key) == IF key \in DOMAIN e THEN e[key] ELSE <<>>

\* Python's `a or b` on optional strings: a unless it is None or ""
OrElse(a, b) == IF a # <<>> /\ a[1] # <<>> THEN a ELSE b

\* {name: (name, fn) for name, fn in default_list}: the last pair wins
name_to_fn(default_list) ==
  [n \in {default_list[i].name : i \in 1..Len(default_list)} |->
     default_list[CHOOSE i \in 1..Len(default_list) :
                    /\ default_list[i].name = n
                    /\ \A j \in (i + 1)..Len(default_list) :
                         default_list[j].name # n]]

\* the generator `x.strip().lower() for x in order.split(",") if x.strip()`
override_names(order) ==
  LET xs == split(order)
      kept == SelectSeq(xs, LAMBDA x : strip(x) # <<>>)
  IN [i \in 1..Len(kept) |-> lower(strip(kept[i]))]

\* the same with the factor-scoped and the global variable swapped
resolve_global_first(e, f, default_list) ==
  LET order == strip(OrElse(OrElse(getenv(e, "ETS_PROVIDERS"),
                                   getenv(e, FactorKey(f))), <<<<>>>>)[1])
      map == name_to_fn(default_list)
      names == override_names(order)
      known == SelectSeq(names, LAMBDA n : Len(n) = 1 /\ n[1] \in DOMAIN map)
      out == [i \in 1..Len(known) |-> map[known[i][1]]]
  IN IF order = <<>> THEN default_list
     ELSE IF out # <<>> THEN out ELSE default_list

\* _resolve_providers(factor, default_list) under the environment e
resolve_providers(e, f, default_list) ==
  LET order == strip(OrElse(OrElse(getenv(e, FactorKey(f)),
                                   getenv(e, "ETS_PROVIDERS")), <<<<>>>>)[1])
      map == name_to_fn(default_list)
      names == override_names(order)
      known == SelectSeq(names, LAMBDA n : Len(n) = 1 /\ n[1] \in DOMAIN map)
      out == [i \in 1..Len(known) |-> map[known[i][1]]]
  IN IF order = <<>> THEN default_list
     ELSE IF out # <<>> THEN out ELSE default_list

\* the ProviderRegistry attributes that fetch_factor looks up with
\* getattr(registry, name, None); there is no attribute `stooq`
registry ==
  [finnhub |-> [limiter |-> TRUE],
   yahoo |-> [limiter |-> TRUE],
   pytrends |-> [limiter |-> TRUE]]

\* what an adapter hands back: None or a non-empty dict
Profiles == {<<>>, <<[finnhubIndustry |-> "Technology"]>>}
\* the adapters that call finnhub_client
FinnhubAdapters == {"_fh_profile2", "_fh_quote"}

\* the acquire() calls of one finnhub_client._get
ClientAcquires(again) == IF again THEN 2 ELSE 1

AdapterAnswers(fn) == IF fn = "_fh_profile2" THEN Profiles ELSE FinnhubAnswers

RaisedValueError == [kind |-> "ValueError", q |-> <<>>]

\* the number of entries of the list ps that name provider n
Occurrences(ps, n) == Cardinality({i \in 1..Len(ps) : ps[i].name = n})

\* fetch_factor(registry, factor, symbol) is called:
\* policy = FACTOR_POLICY.get(factor); `if not policy: raise ValueError`;
\* providers = _resolve_providers(factor, policy["providers"])
FetchFactorCall(f) ==
  /\ fpc = "idle"
  /\ factor' = f
  /\ attempted' = <<>>
  /\ LET policy == PolicyGet(f)
     IN IF policy = <<>>
          THEN /\ fout' = RaisedValueError
               /\ providers' = <<>>
               /\ UNCHANGED fpc
          ELSE LET ps == resolve_providers(env, f, policy[1].providers)
               IN /\ \A n \in DOMAIN booked :
                       booked[n] + policy[1].cost * Occurrences(ps, n)
                         <= MaxBooked
                  /\ providers' = ps
                  /\ fout' = Running
                  /\ fpc' = "loop"
  /\ fi' = 1
  /\ UNCHANGED <<lvars, qvars, rvars, fph, yvars, inv, env, booked, taken,
                 invoked>>

\* the for loop is exhausted: `return None`
FetchFactorExhausted ==
  /\ fpc = "loop" /\ fi > Len(providers)
  /\ fout' = Returned(<<>>)
  /\ fpc' = "idle"
  /\ UNCHANGED <<lvars, qvars, rvars, fph, yvars, inv, env, factor, providers,
                 fi, booked, taken, invoked, attempted>>

\* reg = getattr(registry, name, None); `if not reg: continue`
FetchFactorSkip ==
  /\ fpc = "loop" /\ fi <= Len(providers)
  /\ providers[fi].name \notin DOMAIN registry
  /\ fi' = fi + 1
  /\ UNCHANGED <<lvars, qvars, rvars, fph, yvars, inv, env, fpc, factor,
                 providers, booked, taken, invoked, attempted, fout>>

\* lim = reg.get("limiter"); `if lim: lim.acquire(cost=cost)`: the call
\* returns with cost tokens booked in the provider's limiter
FetchFactorAcquire ==
  /\ fpc = "loop" /\ fi <= Len(providers)
  /\ LET name == providers[fi].name
     IN /\ name \in DOMAIN registry
        /\ IF registry[name].limiter
             THEN /\ booked' = [booked EXCEPT
                                  ![name] = @ + PolicyGet(factor)[1].cost]
                  /\ taken' = [taken EXCEPT
                                 ![name] = @ + PolicyGet(factor)[1].cost]
             ELSE UNCHANGED <<booked, taken>>
  /\ fpc' = "call"
  /\ UNCHANGED <<lvars, qvars, rvars, fph, yvars, inv, env, factor, providers, fi,
                 invoked, attempted, fout>>

\* out = retry_with_backoff(_do, attempts=retries, ..); `if out: return out`.
\* _do calls the adapter, which never raises, so the first attempt returns
\* what the adapter handed back and the except branch is not taken.
\* The finnhub adapters go through finnhub_client._get, which starts with
\* reg["limiter"].acquire() and acquires once more when the first response
\* is a 429 or a 5xx (`again`).
FetchFactorInvoke(out, again) ==
  /\ fpc = "call"
  /\ LET name == providers[fi].name
     IN /\ out \in AdapterAnswers(providers[fi].fn)
        /\ invoked' = [invoked EXCEPT ![name] = @ + 1]
        /\ attempted' = Append(attempted, name)
        /\ IF providers[fi].fn \in FinnhubAdapters
             THEN taken' = [taken EXCEPT
                              ![name] = @ + ClientAcquires(again)]
             ELSE ~again /\ UNCHANGED taken
  /\ IF out # <<>>
       THEN /\ fout' = Returned(out)
            /\ fpc' = "idle"
            /\ UNCHANGED fi
       ELSE /\ fi' = fi + 1
            /\ fpc' = "loop"
            /\ UNCHANGED fout
  /\ UNCHANGED <<lvars, qvars, rvars, fph, yvars, inv, env, factor, providers,
                 booked>>

FetchFactorStep ==
  \/ \E f \in Factors : FetchFactorCall(f)
  \/ FetchFactorExhausted
  \/ FetchFactorSkip
  \/ FetchFactorAcquire
  \/ \E out \in Profiles \cup FinnhubAnswers : \E again \in BOOLEAN :
       FetchFactorInvoke(out, again)

\* the strings the override variables are set to
Overrides ==
  {<<>>,
   <<" ">>,
   <<"finnhub", ",", "yahoo">>,
   <<" ", "Yahoo", " ", ",", "bogus", ",", ",", "yahoo">>,
   <<"bogus", ",", "stooq", " ", "yahoo">>}

EnvValues == {<<>>} \cup {<<o>> : o \in Overrides}

InitFetch(e) ==
  /\ env = e
  /\ fpc = "idle"
  /\ factor = ""
  /\ providers = <<>>
  /\ fi = 1
  /\ booked = [n \in DOMAIN registry |-> 0]
  /\ taken = [n \in DOMAIN registry |-> 0]
  /\ invoked = [n \in DOMAIN registry |-> 0]
  /\ attempted = <<>>
  /\ fout = Running

NoEnv == [k \in EnvKeys |-> <<>>]

\* ------------------------------------------------------ retry_with_backoff
\* durations are in units of a quarter second
Attempts == 1..MaxAttempts
Bases == 1..MaxBase
MaxSleeps == 1..MaxSleepArg

\* what one invocation of call() does: it returns a value (<<>> is None)
\* or raises an exception
Values == {<<>>, <<"payload">>}
Exceptions == {"Timeout", "ConnectionError"}
CallResults ==
  {[ok |-> TRUE, v |-> x] : x \in Values}
    \cup {[ok |-> FALSE, v |-> <<e>>] : e \in Exceptions}

RaisedExc(e) == [kind |-> "exc", q |-> e]

\* `if i == attempts - 1: break`
LastAttemptNever(i, n) == FALSE
LastAttempt(i, n) == i = n - 1

\* retry_with_backoff(call, attempts=n, base=b, max_sleep=m) is called:
\* delay = base; last_exc = None; the for loop starts with i = 0
RetryCall(n, b, m) ==
  /\ rpc = "idle"
  /\ attempts' = n /\ base' = b /\ max_sleep' = m
  /\ delay' = b
  /\ last_exc' = <<>>
  /\ ri' = 0
  /\ rcalls' = <<>>
  /\ sleeps' = <<>>
  /\ rout' = Running
  /\ rpc' = "try"
  /\ UNCHANGED <<lvars, qvars, fvars, fph, yvars, inv>>

\* `return call()`, or the except branch: last_exc = exc, and on the last
\* attempt break, `assert last_exc is not None`, `raise last_exc`
RetryAttempt(r) ==
  /\ rpc = "try"
  /\ rcalls' = Append(rcalls, r)
  /\ IF r.ok
       THEN /\ rout' = Returned(r.v)
            /\ rpc' = "idle"
            /\ UNCHANGED last_exc
       ELSE /\ last_exc' = r.v
            /\ IF LastAttempt(ri, attempts)
                 THEN /\ rout' = RaisedExc(r.v)
                      /\ rpc' = "idle"
                 ELSE /\ rpc' = "sleep"
                      /\ UNCHANGED rout
  /\ UNCHANGED <<lvars, qvars, fvars, fph, yvars, inv, attempts, base, max_sleep, ri,
                 delay, sleeps>>

\* time.sleep(delay); delay = min(max_sleep, delay * 2.0); next i, and
\* when range(attempts) is exhausted, `raise last_exc`
RetrySleep ==
  /\ rpc = "sleep"
  /\ sleeps' = Append(sleeps, delay)
  /\ delay' = Min(max_sleep, delay * 2)
  /\ ri' = ri + 1
  /\ IF ri + 1 < attempts
       THEN /\ rpc' = "try"
            /\ UNCHANGED rout
       ELSE /\ rpc' = "idle"
            /\ rout' = RaisedExc(last_exc)
  /\ UNCHANGED <<lvars, qvars, fvars, fph, yvars, inv, attempts, base, max_sleep,
                 last_exc, rcalls>>

RetryStep ==
  \/ \E n \in Attempts : \E b \in Bases : \E m \in MaxSleeps : RetryCall(n, b, m)
  \/ \E r \in CallResults : RetryAttempt(r)
  \/ RetrySleep

InitRetry ==
  /\ rpc = "idle"
  /\ attempts = 1 /\ base = 1 /\ max_sleep = 1
  /\ ri = 0
  /\ delay = 1
  /\ last_exc = <<>>
  /\ rcalls = <<>>
  /\ sleeps = <<>>
  /\ rout = Running

\* ------------------------------------ fetch_factor on the finnhub limiter
\* Threads call fetch_factor(registry, "profile2", symbol) with no override
\* set: the only provider is finnhub, whose limiter is the RateLimiter above.

\* fetch_factor is called and reaches `lim.acquire(cost=cost)`
ProfileCall(t) ==
  /\ st = "ready" /\ Between(t) /\ fph[t] = "idle"
  /\ fph' = [fph EXCEPT ![t] = "acquire"]
  /\ pc' = [pc EXCEPT ![t] = "a_top"]
  /\ cost' = [cost EXCEPT ![t] = FACTOR_POLICY["profile2"].cost]
  /\ UNCHANGED <<qvars, rvars, fvars, yvars, inv, args, st, reserve, windows, buffers,
                 lock, now, bi, bj, tokens>>

\* acquire has returned; retry_with_backoff invokes the adapter
\* _fh_profile2, whose client call starts with `reg["limiter"].acquire()`.
\* An IndexError of acquire leaves fetch_factor.
ProfileInvoke(t) ==
  /\ fph[t] = "acquire" /\ Between(t)
  /\ IF pc[t] = "raised"
       THEN /\ fph' = [fph EXCEPT ![t] = "idle"]
            /\ UNCHANGED <<inv, pc>>
       ELSE /\ inv' = LastOf(Append(inv, 0), TokKeep)
            /\ fph' = [fph EXCEPT ![t] = "get"]
            /\ pc' = [pc EXCEPT ![t] = "a_top"]
  /\ UNCHANGED <<qvars, rvars, fvars, yvars, args, st, reserve, windows, buffers,
                 lock, now, cost, bi, bj, tokens>>

\* the client's acquire has returned: r = sess.get(url); on status 429 or
\* >= 500 it sleeps, acquires once more and repeats the request; then the
\* adapter returns and fetch_factor returns its payload or None
ProfileGet(t, again) ==
  /\ fph[t] \in {"get", "reget"} /\ Between(t)
  /\ IF pc[t] # "raised" /\ fph[t] = "get" /\ again
       THEN /\ fph' = [fph EXCEPT ![t] = "reget"]
            /\ pc' = [pc EXCEPT ![t] = "a_top"]
       ELSE /\ fph' = [fph EXCEPT ![t] = "idle"]
            /\ pc' = [pc EXCEPT ![t] = "idle"]
  /\ UNCHANGED <<qvars, rvars, fvars, yvars, inv, args, st, reserve, windows, buffers,
                 lock, now, cost, bi, bj, tokens>>

ProfileStep(t) ==
  \/ ProfileCall(t)
  \/ AcquireReadNow(t)
  \/ AcquireLock(t)
  \/ AcquireCheck(t)
  \/ AcquireAppend(t)
  \/ AcquireReturn(t)
  \/ ProfileInvoke(t)
  \/ \E again \in BOOLEAN : ProfileGet(t, again)

InitTimed ==
  /\ fph = [t \in Threads |-> "idle"]
  /\ inv = <<>>

\* ----------------------------------------------- ProviderRegistry.get_prices
EmptyDict == <<>>

\* the fixture file: it cannot be read or parsed, it holds JSON that is not
\* an object, or it holds an object symbol -> price history
Fixtures ==
  {[kind |-> "missing", data |-> EmptyDict],
   [kind |-> "notdict", data |-> EmptyDict],
   [kind |-> "dict", data |-> EmptyDict],
   [kind |-> "dict", data |-> [s \in {<<"A">>} |-> <<10, 11>>]]}

\* the symbols a caller passes: "a", " A", "b", " " and ""
PriceSymbols == {<<"a">>, <<" ", "A">>, <<"b">>, <<" ">>, <<>>}
RECURSIVE SeqsUpTo(_, _)
SeqsUpTo(S, n) ==
  IF n = 0 THEN {<<>>}
  ELSE LET shorter == SeqsUpTo(S, n - 1)
       IN shorter \cup {Append(q, x) : q \in shorter, x \in S}
SymbolLists == SeqsUpTo(PriceSymbols, MaxSymbols)

\* prices.get(s, [])
dict_get(d, k, default) == IF k \in DOMAIN d THEN d[k] ELSE default

\* what a failed load leaves in _offline_prices if the failure is not cached
LoadedOnSuccessOnly(file) ==
  IF file.kind = "dict" THEN <<file.data>> ELSE <<>>

\* what _load_offline_prices stores after reading the file:
\* `data if isinstance(data, dict) else {}`, and {} in the except branch
Loaded(file) ==
  IF file.kind = "dict" THEN <<file.data>> ELSE <<EmptyDict>>

\* [s.upper().strip() for s in symbols if s and s.strip()]
symbols_list(symbols) ==
  LET kept == SelectSeq(symbols, LAMBDA x : x # <<>> /\ strip(x) # <<>>)
  IN [i \in 1..Len(kept) |-> strip(upper(kept[i]))]

Elements(L) == {L[i] : i \in 1..Len(L)}

\* get_prices(symbols); `imported` tells whether `import yfinance` succeeds,
\* `answers` what yf.download yields per symbol ([] also when it raises)
GetPrices(symbols, imported, answers) ==
  /\ gcalls < MaxCalls
  /\ gcalls' = gcalls + 1
  /\ gin' = symbols
  /\ LET list == symbols_list(symbols)
         keys == Elements(list)
     IN IF list = <<>>
          THEN /\ gout' = EmptyDict
               /\ UNCHANGED <<offline_prices, reads, net>>
          ELSE IF offline_mode
          THEN LET cached == offline_prices # <<>>
                   stored == IF cached THEN offline_prices ELSE Loaded(fixture)
                   prices == IF stored # <<>> THEN stored[1] ELSE EmptyDict
               IN /\ offline_prices' = stored
                  /\ reads' = IF cached THEN reads ELSE reads + 1
                  /\ gout' = [k \in keys |-> dict_get(prices, k, <<>>)]
                  /\ UNCHANGED net
          ELSE /\ net' = IF imported THEN net + Len(list) ELSE net
               /\ gout' = [k \in keys |-> IF imported THEN answers[k] ELSE <<>>]
               /\ UNCHANGED <<offline_prices, reads>>
  /\ UNCHANGED <<lvars, qvars, rvars, fvars, fph, inv, vvars, view,
                 offline_mode, fixture>>

GetPricesStep ==
  \E symbols \in SymbolLists : \E imported \in BOOLEAN :
    \E answers \in [{<<"A">>, <<"B">>} -> {<<>>, <<10, 11>>}] :
      GetPrices(symbols, imported, answers)

InitRegistry ==
  /\ offline_mode = FALSE
  /\ offline_prices = <<>>
  /\ fixture = [kind |-> "missing", data |-> EmptyDict]
  /\ reads = 0
  /\ net = 0
  /\ gcalls = 0
  /\ gin = <<>>
  /\ gout = EmptyDict

\* ----------------------------------------------------------- get_pull_log
\* L itself: the module's own list, whose entries are read from _PULL_LOG
list_alias(L) == [alias |-> TRUE, items |-> <<>>]
\* list(L): a new list with the entries of L
list_copy(L) == [alias |-> FALSE, items |-> L]

\* return list(_PULL_LOG)
get_pull_log == list_copy(PULL_LOG)

GetPullLog ==
  /\ view' = <<get_pull_log>>
  /\ UNCHANGED <<lvars, qvars, rvars, fvars, fph, inv, vvars, gvars>>

\* an entry of the caller's own making
CallerEntry == [symbol |-> <<"X">>, provider |-> "caller", ok |-> 1,
                by |-> Caller]

\* the caller appends an entry to the list it was handed
ViewAppend ==
  /\ view # <<>>
  /\ IF view[1].alias
       THEN /\ Len(PULL_LOG) < MaxLog
            /\ PULL_LOG' = Append(PULL_LOG, CallerEntry)
            /\ UNCHANGED view
       ELSE /\ Len(view[1].items) < MaxLog
            /\ view' = <<[view[1] EXCEPT !.items = Append(@, CallerEntry)]>>
            /\ UNCHANGED PULL_LOG
  /\ UNCHANGED <<lvars, rvars, fvars, fph, inv, vvars, gvars, REG, MEMO, qpc, qsym,
                 qout, logStart, later, tried, got, acquired, first>>

\* the caller removes the last entry of the list it was handed
ViewPop ==
  /\ view # <<>>
  /\ IF view[1].alias
       THEN /\ PULL_LOG # <<>>
            /\ PULL_LOG' = SubSeq(PULL_LOG, 1, Len(PULL_LOG) - 1)
            /\ UNCHANGED view
       ELSE /\ view[1].items # <<>>
            /\ view' = <<[view[1] EXCEPT
                            !.items = SubSeq(@, 1, Len(@) - 1)]>>
            /\ UNCHANGED PULL_LOG
  /\ UNCHANGED <<lvars, rvars, fvars, fph, inv, vvars, gvars, REG, MEMO, qpc, qsym,
                 qout, logStart, later, tried, got, acquired, first>>

\* ------------------------------------------------- _valid_bar on a payload
\* a value of a payload's field: a number, no such key, or not a number
Num(n) == [kind |-> "num", v |-> n]
Absent == [kind |-> "absent", v |-> 0]
NotNum == [kind |-> "text", v |-> 0]

\* prices are counted in units of 0.5: 198, 200, 201, 202 are 99, 100, 100.5
\* and 101
Prices == (-1 .. MaxPrice) \cup {198, 200, 201, 202}
FieldValues == {Num(n) : n \in Prices} \cup {Absent, NotNum}
BarKeys == {"open", "high", "low", "last"}

\* q.get(key, 0)
get0(q, key) == IF q[key].kind = "absent" THEN Num(0) ELSE q[key]

\* _valid_bar(q) as the aggregator calls it: float() of a value that is not
\* a number raises, and the except branch answers False
valid_bar_raw(q) ==
  IF \E k \in BarKeys : get0(q, k).kind = "text" THEN FALSE
  ELSE valid_bar(Bar(get0(q, "open").v, get0(q, "high").v,
                     get0(q, "low").v, get0(q, "last").v))

ValidBarCall ==
  /\ ~vdone
  /\ vok' = valid_bar_raw(vq)
  /\ vdone' = TRUE
  /\ UNCHANGED <<lvars, qvars, rvars, fvars, fph, inv, vq, view, gvars>>

InitValid ==
  /\ vq = [k \in BarKeys |-> Absent]
  /\ vdone = FALSE
  /\ vok = FALSE

\* the module's state but the registry, and no call made yet
InitCalls ==
  /\ MEMO = <<>>
  /\ PULL_LOG = <<>>
  /\ qpc = [t \in Threads |-> "idle"]
  /\ qsym = [t \in Threads |-> <<>>]
  /\ qout = [t \in Threads |-> Running]
  /\ logStart = [t \in Threads |-> 0]
  /\ later = [t \in Threads |-> FALSE]
  /\ tried = [t \in Threads |-> <<>>]
  /\ got = [t \in Threads |-> <<>>]
  /\ acquired = [t \in Threads |-> <<>>]
  /\ first = <<>>

InitQuotes ==
  /\ REG = FALSE
  /\ InitCalls

InitLimiter ==
  /\ args \in [per_second : PerSecondArgs, per_minute : PerMinuteArgs,
               reserve : ReserveArgs]
  /\ st = "new"
  /\ reserve = 0
  /\ windows = <<>>
  /\ buffers = <<>>
  /\ lock = NoThread
  /\ pc = [t \in Threads |-> "idle"]
  /\ now = [t \in Threads |-> 0]
  /\ cost = [t \in Threads |-> 1]
  /\ bi = [t \in Threads |-> 1]
  /\ bj = [t \in Threads |-> 0]
  /\ tokens = <<>>

InitOther ==
  /\ InitValid
  /\ InitRegistry
  /\ view = <<>>

Init ==
  /\ InitLimiter /\ InitQuotes /\ InitRetry /\ InitFetch(NoEnv) /\ InitTimed
  /\ InitOther

\* the limiter, called by the threads
Next ==
  \/ RateLimiterInit
  \/ Tick
  \/ \E t \in Threads : ThreadStep(t)

Spec == Init /\ [][Next]_vars

\* a single caller
NextSeq ==
  \/ RateLimiterInit
  \/ Tick
  \/ ThreadStep(Caller)

SpecSeq == Init /\ [][NextSeq]_vars

\* the steps of a call in progress, which the thread takes when scheduled
Progress(t) ==
  \/ AcquireReadNow(t)
  \/ AcquireLock(t)
  \/ AcquireCheck(t)
  \/ AcquireAppend(t)
  \/ AcquireReturn(t)
  \/ StatsLock(t)
  \/ StatsRead(t)

\* one window that allows a single booking
InitFair ==
  /\ Init
  /\ args = [per_second |-> <<1>>, per_minute |-> None, reserve |-> 0]

\* fair scheduling of the threads, fair lock hand-over, an advancing clock
SpecFair ==
  /\ InitFair /\ [][Next]_vars
  /\ WF_vars(Tick)
  /\ \A t \in Threads : SF_vars(Progress(t))

\* the quote aggregation, called by the threads; the limiter is left as built
InitQ ==
  /\ Init
  /\ args = [per_second |-> <<2>>, per_minute |-> <<3>>, reserve |-> 0]

NextQ ==
  \/ set_registry
  \/ \E t \in Threads : QuoteStep(t)

SpecQ == InitQ /\ [][NextQ]_vars

\* retry_with_backoff, called by a single caller
InitR ==
  /\ Init
  /\ args = [per_second |-> <<2>>, per_minute |-> <<3>>, reserve |-> 0]

SpecR == InitR /\ [][RetryStep]_vars

\* fetch_factor, called by a single caller under every environment
InitF ==
  /\ InitLimiter /\ InitQuotes /\ InitRetry /\ InitTimed /\ InitOther
  /\ args = [per_second |-> <<2>>, per_minute |-> <<3>>, reserve |-> 0]
  /\ \E e \in [EnvKeys -> EnvValues] : InitFetch(e)

SpecF == InitF /\ [][FetchFactorStep]_vars

\* fetch_factor for "profile2", called by the threads
NextP ==
  \/ RateLimiterInit
  \/ Tick
  \/ \E t \in Threads : ProfileStep(t)

SpecP == InitFair /\ [][NextP]_vars

\* the quote aggregation and get_pull_log, called by a single caller that
\* changes the lists it is handed
NextL ==
  \/ set_registry
  \/ QuoteStep(Caller)
  \/ GetPullLog
  \/ ViewAppend
  \/ ViewPop

SpecL == InitQ /\ [][NextL]_vars

\* get_prices, called by a single caller on a registry built in either mode
\* over every fixture file
InitG ==
  /\ InitLimiter /\ InitQuotes /\ InitRetry /\ InitFetch(NoEnv) /\ InitTimed
  /\ args = [per_second |-> <<2>>, per_minute |-> <<3>>, reserve |-> 0]
  /\ InitValid
  /\ view = <<>>
  /\ offline_mode \in BOOLEAN
  /\ fixture \in Fixtures
  /\ offline_prices = <<>>
  /\ reads = 0 /\ net = 0 /\ gcalls = 0
  /\ gin = <<>>
  /\ gout = EmptyDict

SpecG == InitG /\ [][GetPricesStep]_vars

\* sequential fetch_quote_basic calls for two symbols with a registry set
MoreSymbols == RawSymbols \cup {<<"b">>}

InitS ==
  /\ InitLimiter /\ InitRetry /\ InitFetch(NoEnv) /\ InitTimed /\ InitOther
  /\ args = [per_second |-> <<2>>, per_minute |-> <<3>>, reserve |-> 0]
  /\ REG = TRUE
  /\ InitCalls

NextS ==
  \/ \E symbol \in MoreSymbols : FetchCall(Caller, symbol)
  \/ QuoteStep(Caller)

SpecS == InitS /\ [][NextS]_vars

\* _valid_bar, applied once to every payload over the field values
InitV ==
  /\ InitLimiter /\ InitQuotes /\ InitRetry /\ InitFetch(NoEnv) /\ InitTimed
  /\ args = [per_second |-> <<2>>, per_minute |-> <<3>>, reserve |-> 0]
  /\ vq \in [BarKeys -> FieldValues]
  /\ vdone = FALSE
  /\ vok = FALSE
  /\ view = <<>>
  /\ InitRegistry

SpecV == InitV /\ [][ValidBarCall]_vars

\* ------------------------------------------------------------------ claims
\* bookings of window i that are still inside the window at the current clock
InWindow(i) ==
  Cardinality({j \in 1..Len(buffers[i]) : buffers[i][j] < windows[i].size_sec})

\* the step in which acquire of thread t returns after booking
Returns(t) == pc[t] = "a_book" /\ pc'[t] = "idle"

\* C1: immediately after any acquire(cost) returns, every window holds at
\* most capacity - reserve bookings that are still inside that window.
C1_UsedWithinAllowedAfterAcquire ==
  [][\A t \in Threads : Returns(t) =>
       \A i \in 1..Len(windows) :
         InWindow(i)' <= windows[i].capacity - reserve]_vars

\* tokens whose acquire returned less than `size` ticks ago
ReturnedWithin(size) ==
  Cardinality({j \in 1..Len(tokens) : tokens[j].rt < size})

\* C2: the number of tokens whose acquire returned inside a real-time
\* interval shorter than a window's size never exceeds that window's
\* capacity - reserve (intervals ending at the current instant, with at
\* least one token returned).
C2_ReturnsPerIntervalWithinAllowed ==
  \A i \in 1..Len(windows) :
    tokens # <<>> => ReturnedWithin(windows[i].size_sec)
                       <= windows[i].capacity - reserve

\* thread u has appended some, but not all, entries of its booking
PartiallyBooked(u) ==
  /\ pc[u] = "a_book"
  /\ bi[u] <= Len(buffers)
  /\ bi[u] > 1 \/ bj[u] > 0

\* thread t is about to read the buffers (in acquire or in get_stats)
Observes(t) == pc[t] \in {"a_check", "s_read"}

\* C3: acquire(cost=k) books its k timestamps in every window in one step
\* under the lock: no concurrent acquire or get_stats reads the buffers while
\* another call has booked only some windows or fewer than k entries.
C3_BookingIsAtomic ==
  \A t \in Threads : \A u \in Threads \ {t} :
    Observes(t) => ~PartiallyBooked(u)

\* a cost-2 booking between its appends while another call waits for the lock
C3_Witness ==
  \E t \in Threads : \E u \in Threads \ {t} :
    /\ PartiallyBooked(u) /\ cost[u] = 2 /\ Len(windows) = 2
    /\ bi[u] = 2 /\ bj[u] = 1
    /\ pc[t] \in {"a_lock", "s_lock"}

\* C4: acquire never raises: it returns after booking or keeps blocking.
C4_AcquireNeverRaises == \A t \in Threads : pc[t] # "raised"

\* C5: a constructed limiter has reserve < capacity in every configured
\* window (construction fails otherwise).
C5_ConstructionRejectsReserveGeCapacity ==
  st = "ready" => \A i \in 1..Len(windows) : reserve < windows[i].capacity

\* the call of thread t fits every window: 1 <= cost <= capacity - reserve
Fits(t) ==
  /\ pc[t] \in {"a_top", "a_lock", "a_check", "a_book"}
  /\ \A i \in 1..Len(windows) : cost[t] <= windows[i].capacity - reserve

\* C6: under fair scheduling and an advancing clock every acquire(cost) with
\* 1 <= cost <= capacity - reserve eventually returns.
C6_EveryFittingAcquireReturns ==
  \A t \in Threads : (pc[t] = "a_top" /\ Fits(t)) ~> (pc[t] = "idle")

\* C7: for a single caller, the booking that comes A = capacity - reserve
\* bookings after another one returns no earlier than the window size after
\* the timestamp of that earlier booking.
C7_NextBookingWaitsForWindow ==
  \A i \in 1..Len(windows) : \A j \in 1..Len(tokens) :
    LET A == windows[i].capacity - reserve
    IN (A >= 1 /\ j - A >= 1 /\ tokens[j].rt = 0)
         => tokens[j - A].st >= windows[i].size_sec

\* per_second=2, reserve=0: three calls at three different ticks, the second
\* inside the window of the first, the third just returned
C7_Witness ==
  /\ st = "ready" /\ windows # <<>> /\ reserve = 0
  /\ windows[1] = Window(SecSize, 2)
  /\ Len(tokens) >= 3
  /\ LET n == Len(tokens)
     IN /\ tokens[n].rt = 0 /\ tokens[n].st = 0
        /\ tokens[n - 1].st > 0 /\ tokens[n - 1].st < SecSize
        /\ tokens[n - 2].st >= SecSize

\* the pull-log entries appended by the current or last call of thread t
CallLog(t) ==
  LET added == SubSeq(PULL_LOG, logStart[t] + 1, Len(PULL_LOG))
  IN SelectSeq(added, LAMBDA e : e.by = t)

\* the last call of thread t has ended
Ended(t) == qpc[t] = "idle" /\ qout[t].kind # "none"

\* C8: once a call for a symbol has completed, every later call for the same
\* normalised symbol makes no provider call, appends no pull-log entry and
\* returns the outcome of the first completed call.
C8_LaterCallsReturnFirstOutcome ==
  \A t \in Threads :
    (Ended(t) /\ later[t]) =>
      /\ qout[t].kind = "ret"
      /\ tried[t] = <<>>
      /\ CallLog(t) = <<>>
      /\ qout[t].q = first[qsym[t]]

\* C9: the memo entry of a symbol is write-once: the value first stored is
\* never replaced by a later writer.
C9_MemoIsWriteOnce ==
  [][\A s \in DOMAIN MEMO : s \in DOMAIN MEMO' /\ MEMO'[s] = MEMO[s]]_vars

\* C10: a call on a symbol that is not memoized, in which the first k
\* providers called fail and the next one hands back a valid record, returns
\* that record, appends exactly k entries with ok=0 followed by one entry with
\* ok=1, in chain order, and calls no further provider.
C10_FallbackLogsFailuresThenSuccess ==
  \A t \in Threads :
    (Ended(t) /\ qout[t].kind = "ret" /\ qout[t].q # <<>> /\ tried[t] # <<>>) =>
      LET n == Len(tried[t])
          L == CallLog(t)
      IN /\ qout[t].q = got[t]
         /\ Len(L) = n
         /\ \A i \in 1..Len(L) :
              /\ L[i].symbol = qsym[t]
              /\ i <= n /\ L[i].provider = tried[t][i]
              /\ L[i].ok = IF i = n THEN 1 ELSE 0
         /\ \E k \in 0..1 : \A i \in 1..n : i + k <= Len(Chain) /\ tried[t][i] = Chain[i + k]

\* finnhub is called and fails, yahoo_direct hands back a valid record
C10_Witness ==
  \E t \in Threads :
    /\ Ended(t) /\ qout[t].kind = "ret" /\ qout[t].q # <<>>
    /\ tried[t] = <<"finnhub", "yahoo_direct">>

\* the Quote Validator applied to a payload with the keys o, h, l, c
Validated(q) == valid_bar(Bar(q.o, q.h, q.l, q.c))

\* C11: a payload that fetch_factor returns for the factor "quote" passes
\* the Quote Validator: a payload the validator rejects (low=10, high=5)
\* is never handed to the caller, whichever provider produced it.
C11_FetchFactorReturnsOnlyValidPayloads ==
  (factor = "quote" /\ fpc = "idle" /\ fout.kind = "ret" /\ fout.q # <<>>)
    => Validated(fout.q[1])

\* the provider after p in the chain of fetch_quote_basic, "idle" after the last
NextInChain(p) ==
  LET i == CHOOSE k \in 1..Len(Chain) : Chain[k] = p
  IN IF i < Len(Chain) THEN Chain[i + 1] ELSE "idle"

\* thread t's call has just been handed a record that fails _valid_bar
GotInvalid(t) ==
  /\ tried'[t] # tried[t]
  /\ got'[t] # <<>> /\ ~valid_bar(got'[t][1])

\* C12: every record that fetch_quote_basic returns or stores in the memo
\* has passed _valid_bar, whichever provider produced it; a record that
\* fails _valid_bar is logged with ok=0 and the next provider of the chain
\* is tried (after the last one the call ends with None).
C12_OnlyValidBarsReturnedOrStored ==
  /\ [](/\ \A t \in Threads :
            (Ended(t) /\ qout[t].kind = "ret" /\ qout[t].q # <<>>)
              => valid_bar(qout[t].q[1])
        /\ \A s \in DOMAIN MEMO : MEMO[s] # <<>> => valid_bar(MEMO[s][1]))
  /\ [][\A t \in Threads :
         GotInvalid(t) =>
           LET p == tried'[t][Len(tried'[t])]
           IN /\ PULL_LOG' = Append(PULL_LOG, [symbol |-> qsym[t], provider |-> p,
                                               ok |-> 0, by |-> t])
              /\ qpc'[t] = NextInChain(p)
              /\ IF NextInChain(p) = "idle"
                   THEN qout'[t] = Returned(<<>>) /\ MEMO'[qsym[t]] = <<>>
                   ELSE qout'[t] = Running /\ MEMO' = MEMO]_vars

\* yahoo_direct handed a call the record with low=10, high=5: it is logged
\* with ok=0, nothing is stored or returned, and yfinance is next
C12_Witness ==
  \E t \in Threads :
    /\ tried[t] = <<"yahoo_direct">> /\ got[t] = <<Bar(10, 5, 10, 7)>>
    /\ qpc[t] = "yfinance" /\ qout[t] = Running
    /\ PULL_LOG # <<>> /\ PULL_LOG[Len(PULL_LOG)].ok = 0
    /\ PULL_LOG[Len(PULL_LOG)].provider = "yahoo_direct"

\* C13: a provider call that raises is that provider's failure: the call of
\* fetch_quote_basic (or pct_change_today on top of it) goes on to the next
\* provider and the exception never reaches its caller.
C13_ProviderExceptionNeverReachesCaller ==
  \A t \in Threads :
    /\ qout[t].kind # "exc"
    /\ (qpc[t] = "idle" /\ tried[t] # <<>> /\ got[t] = <<>>)
         => tried[t][Len(tried[t])] = Chain[Len(Chain)]

\* the names of the list ps, in order, that the registry knows
KnownNames(ps) ==
  LET known == SelectSeq(ps, LAMBDA x : x.name \in DOMAIN registry)
  IN [i \in 1..Len(known) |-> known[i].name]

\* C14: within one fetch_factor call the providers are attempted in the
\* resolved policy order, and no provider name is attempted twice.
C14_EachProviderAttemptedAtMostOnce ==
  /\ \A i, j \in 1..Len(attempted) : attempted[i] = attempted[j] => i = j
  /\ Len(attempted) <= Len(KnownNames(providers))
  /\ attempted = SubSeq(KnownNames(providers), 1, Len(attempted))

\* the override in force: the factor-scoped one if it is set and not "",
\* else the global one if it is set and not "", else none (<<>>)
OverrideInForce(e, f) ==
  LET scoped == getenv(e, FactorKey(f))
      global == getenv(e, "ETS_PROVIDERS")
  IN IF scoped # <<>> /\ scoped[1] # <<>> THEN scoped
     ELSE IF global # <<>> /\ global[1] # <<>> THEN global
     ELSE <<>>

\* the names (trimmed, in lower case) of an override that occur in the list
NamesKept(ov, default_list) ==
  SelectSeq(override_names(ov),
            LAMBDA n : \E i \in 1..Len(default_list) : <<default_list[i].name>> = n)

\* C15: _resolve_providers returns the names of the override in force that
\* occur in the factor's default list, in the override's order, each with
\* its adapter; with no override in force, or when filtering leaves
\* nothing, it returns the default list unchanged.
C15_ResolveFiltersOverrideElseDefault ==
  (factor \in DOMAIN FACTOR_POLICY) =>
    LET default_list == FACTOR_POLICY[factor].providers
        ov == OverrideInForce(env, factor)
        kept == IF ov = <<>> THEN <<>> ELSE NamesKept(ov[1], default_list)
    IN IF kept = <<>>
         THEN providers = default_list
         ELSE /\ Len(providers) = Len(kept)
              /\ \A i \in 1..Len(kept) :
                   /\ <<providers[i].name>> = kept[i]
                   /\ \E j \in 1..Len(default_list) : default_list[j] = providers[i]

\* the factor-scoped override "finnhub,yahoo" beats the global one and
\* reorders the providers of "quote"
C15_Witness ==
  /\ factor = "quote"
  /\ env["ETS_QUOTE_PROVIDERS"] = <<(<<"finnhub", ",", "yahoo">>)>>
  /\ env["ETS_PROVIDERS"] = <<(<<"bogus", ",", "stooq", " ", "yahoo">>)>>
  /\ providers = <<[name |-> "finnhub", fn |-> "_fh_quote"],
                   [name |-> "yahoo", fn |-> "_yh_quote"]>>

\* the call of retry_with_backoff has ended
RetryEnded == rpc = "idle" /\ rout.kind # "none"

\* C16: retry_with_backoff with attempts = n >= 1: if call raises on every
\* attempt it is invoked exactly n times with exactly n - 1 sleeps and the
\* last exception is re-raised; if it first succeeds on attempt k <= n it is
\* invoked exactly k times and that value is returned.
C16_RetryInvokesAtMostAttemptsTimes ==
  /\ Len(rcalls) <= attempts
  /\ RetryEnded =>
       LET k == Len(rcalls)
       IN /\ k >= 1
          /\ \A i \in 1..(k - 1) : ~rcalls[i].ok
          /\ Len(sleeps) = k - 1
          /\ IF rcalls[k].ok
               THEN rout = Returned(rcalls[k].v)
               ELSE k = attempts /\ rout = RaisedExc(rcalls[k].v)

\* three attempts that all raise, the last one a ConnectionError
C16_Witness ==
  /\ RetryEnded /\ attempts = 3 /\ Len(rcalls) = 3 /\ Len(sleeps) = 2
  /\ rcalls[1].v = <<"Timeout">>
  /\ rout = RaisedExc(<<"ConnectionError">>)

RECURSIVE Pow2(_)
Pow2(i) == IF i = 0 THEN 1 ELSE 2 * Pow2(i - 1)

\* C17: the sleep after failed attempt i (counted from 0) is
\* min(max_sleep, base * 2^i) plus a jitter >= 0, and no single sleep is
\* longer than max_sleep, for every base and max_sleep.
C17_SleepIsCappedBackoff ==
  \A j \in 1..Len(sleeps) :
    /\ sleeps[j] >= Min(max_sleep, base * Pow2(j - 1))
    /\ sleeps[j] <= max_sleep

\* the adapter invocations of the last size ticks
InvokedWithin(size) == Cardinality({j \in 1..Len(inv) : inv[j] < size})

\* C18: the adapter invocations that fetch_factor makes for a provider are
\* covered by the tokens it booked in the provider's limiter, so that the
\* invocations falling inside any window stay within capacity - reserve.
C18_InvocationsWithinWindowBudget ==
  \A i \in 1..Len(windows) :
    InvokedWithin(windows[i].size_sec) <= allowed(windows[i])

\* C19: fetch_quote_basic calls a provider only after an acquire on that
\* provider's RateLimiter has returned: no provider call without a token.
C19_ProviderCalledOnlyAfterAcquire ==
  \A t \in Threads :
    \A i \in 1..Len(tried[t]) :
      \E j \in 1..Len(acquired[t]) : acquired[t][j] = tried[t][i]

\* the factor of the current or last call has no policy
UnknownFactor(f) == f \in Factors /\ f \notin DOMAIN FACTOR_POLICY

\* C20: fetch_factor called with a factor that has no policy raises a
\* ValueError before any limiter is acquired and before any adapter is
\* invoked, and the failed call leaves every limiter's bookings unchanged.
C20_UnknownFactorRaisesBeforeAnyBooking ==
  /\ [](UnknownFactor(factor) =>
          /\ fpc = "idle" /\ fout = RaisedValueError
          /\ attempted = <<>>)
  /\ [][UnknownFactor(factor') => (booked' = booked /\ invoked' = invoked)]_vars

\* a call for "sentiment" failed after an earlier call had booked tokens
C20_Witness ==
  /\ factor = "sentiment" /\ fout = RaisedValueError /\ fpc = "idle"
  /\ booked["finnhub"] > 0 /\ invoked["finnhub"] > 0

\* the validation rule as stated: a price that is missing or not a number
\* is not above 0
PriceOf(q, key) == IF q[key].kind = "num" THEN q[key].v ELSE 0
Accepts(q) ==
  LET open == PriceOf(q, "open") high == PriceOf(q, "high")
      low == PriceOf(q, "low") close == PriceOf(q, "last")
  IN /\ open > 0 /\ high > 0 /\ low > 0 /\ close > 0
     /\ low <= high
     /\ 5 * (high - low) < open

\* open=100, high=101, low=99, close=100.5 in units of 0.5
ExamplePayload ==
  [open |-> Num(200), high |-> Num(202), low |-> Num(198), last |-> Num(201)]

\* C21: _valid_bar(q) is true exactly when open, high, low and close are
\* above 0, low <= high and (high - low) / open < 0.2; the payload 100, 101,
\* 99, 100.5 is accepted and the same payload with open = 0 is rejected.
C21_ValidBarIsTheStatedRule ==
  vdone =>
    /\ vok = Accepts(vq)
    /\ vq = ExamplePayload => vok
    /\ vq = [ExamplePayload EXCEPT !["open"] = Num(0)] => ~vok

C21_Witness == vdone /\ vq = ExamplePayload /\ vok

\* what pct_change_today hands to its caller on top of the outcome `out` of
\* its fetch_quote_basic call: the fraction <<numerator, denominator>>
PctOutcome(out) ==
  IF out.kind = "exc" THEN [kind |-> "exc", v |-> <<0, 1>>]
  ELSE [kind |-> "ret", v |-> pct_of(out.q)]

\* C22: pct_change_today returns 0 when fetch_quote_basic yields no record
\* or the record's open is <= 0, and (close / open - 1) * 100 otherwise; for
\* a symbol whose every provider failed it returns 0 and signals no error.
C22_PctChangeIsZeroWithoutRecord ==
  \A t \in Threads :
    Ended(t) =>
      LET r == PctOutcome(qout[t])
          q == qout[t].q
      IN /\ r.kind = "ret"
         /\ IF q = <<>> \/ q[1].open <= 0
              THEN r.v = <<0, 1>>
              ELSE r.v = <<(q[1].last - q[1].open) * 100, q[1].open>>

\* C23: across fetch_quote_basic, pct_change_today and get_pull_log calls
\* the pull log only grows: a step changes it only by appending the entry of
\* the provider just tried, entries keep their position and content, and
\* adding or removing entries of a list get_pull_log returned leaves it alone.
C23_PullLogOnlyGrows ==
  [][PULL_LOG' # PULL_LOG =>
       \E t \in Threads :
         /\ tried'[t] # tried[t]
         /\ Len(PULL_LOG') = Len(PULL_LOG) + 1
         /\ SubSeq(PULL_LOG', 1, Len(PULL_LOG)) = PULL_LOG
         /\ PULL_LOG'[Len(PULL_LOG')].provider = tried'[t][Len(tried'[t])]]_vars

\* the caller removed an entry of a returned list and added its own, and the
\* log has grown since
C23_Witness ==
  /\ view # <<>> /\ Len(PULL_LOG) >= 3
  /\ view[1].items = <<PULL_LOG[1], CallerEntry>>

\* the requested symbols that are not blank, trimmed and in upper case
Requested(symbols) ==
  {strip(upper(symbols[i])) : i \in {j \in 1..Len(symbols) : strip(symbols[j]) # <<>>}}

\* C24: in offline mode get_prices never invokes a network adapter, returns
\* one entry for every requested non-blank symbol (upper-cased, the empty
\* list when the fixture lacks it) and reads the fixture file at most once
\* per registry however often it is called, also when the first load fails.
C24_OfflinePricesComeFromOneFixtureRead ==
  offline_mode =>
    /\ net = 0
    /\ reads <= 1
    /\ gcalls > 0 =>
         /\ DOMAIN gout = Requested(gin)
         /\ \A k \in DOMAIN gout :
              gout[k] = IF fixture.kind = "dict" /\ k \in DOMAIN fixture.data
                          THEN fixture.data[k] ELSE <<>>

\* the third call on a registry whose fixture file cannot be read
C24_Witness ==
  /\ offline_mode /\ fixture.kind = "missing" /\ gcalls = 3 /\ reads = 1
  /\ gin = <<(<<" ", "A">>), <<"b">>>>
  /\ DOMAIN gout = {<<"A">>, <<"B">>}

\* C25: under any interleaving of concurrent acquire calls each window's
\* buffer holds its booking timestamps in non-decreasing order from the front
\* (oldest) to the back (newest): no entry is older than one before it.
C25_BuffersAreInTimestampOrder ==
  \A i \in 1..Len(buffers) :
    \A j, k \in 1..Len(buffers[i]) :
      j < k => buffers[i][j] >= buffers[i][k]

\* the attempts the current call has made on provider n, all of them failed
\* once the call is back at the top of its loop
AttemptsOn(n) == Cardinality({i \in 1..Len(attempted) : attempted[i] = n})

\* C26: fetch_factor gives a provider up only after its retry budget is
\* spent: when the loop moves on, the adapter of every provider attempted so
\* far has been invoked `retries` times (3) per attempt, whether it raised
\* or returned an empty payload.
C26_ProviderGivenUpAfterRetriesInvocations ==
  (fpc = "loop" /\ factor \in DOMAIN FACTOR_POLICY) =>
    \A n \in DOMAIN invoked :
      invoked[n] >= FACTOR_POLICY[factor].retries * AttemptsOn(n)

\* the step is fetch_factor's `lim.acquire(cost=cost)` on provider n
AttemptBooksOn(n) ==
  /\ fpc = "loop" /\ fpc' = "call"
  /\ providers[fi].name = n

\* C27: one fetch_factor attempt on a provider books exactly the policy's
\* `cost` tokens in that provider's limiter and none in any other limiter;
\* no other step of the call books a token, so providers that are skipped or
\* never reached book nothing.
C27_AttemptBooksExactlyCost ==
  [][\A n \in DOMAIN taken :
       taken'[n] - taken[n] =
         IF AttemptBooksOn(n) THEN FACTOR_POLICY[factor].cost ELSE 0]_vars

\* thread t has a provider chain in flight for the symbol s
InFlight(t, s) == qpc[t] # "idle" /\ qsym[t] = s

\* C28: fetch_quote_basic takes no lock between its memo check and its memo
\* write: while one call has a provider chain in flight for a symbol and
\* the memo holds no entry for it, a first call of another thread for the
\* same symbol is not held back, passes the memo check and starts its own
\* chain; two in-flight chains for one symbol are reachable.
C28_SecondCallPassesMemoCheck ==
  \A t \in Threads : \A u \in Threads \ {t} : \A symbol \in RawSymbols :
    (/\ InFlight(u, strip(upper(symbol)))
     /\ strip(upper(symbol)) \notin DOMAIN MEMO
     /\ qpc[t] = "idle"
     /\ Len(PULL_LOG) + Len(Chain) <= MaxLog)
      => ENABLED (FetchCall(t, symbol) /\ qpc'[t] = "finnhub")

\* both threads have called a provider for the same symbol and neither has
\* written the memo
C28_Witness ==
  /\ InFlight("t1", <<"A">>) /\ InFlight("t2", <<"A">>)
  /\ tried["t1"] # <<>> /\ tried["t2"] # <<>>
  /\ MEMO = <<>>

\* sequence a is what is left of sequence b after dropping some front entries
IsSuffix(a, b) ==
  \E k \in 0..Len(b) : a = SubSeq(b, k + 1, Len(b))

\* no acquire is between the appends of its booking
NoBookingInProgress == \A t \in Threads : pc[t] # "a_book"

\* C29: with both windows configured, whenever no booking is in the middle
\* of its appends (they run under the lock), the per-second buffer is a
\* suffix of the per-minute buffer, same timestamps in the same order, so
\* the per-second used count never exceeds the per-minute one, under any
\* interleaving of acquire and get_stats calls.
C29_SecondBufferIsSuffixOfMinuteBuffer ==
  (Len(buffers) = 2 /\ NoBookingInProgress) =>
    /\ IsSuffix(buffers[1], buffers[2])
    /\ Len(buffers[1]) <= Len(buffers[2])

\* the per-second buffer has lost entries the per-minute buffer still holds
C29_Witness ==
  /\ Len(buffers) = 2 /\ NoBookingInProgress /\ lock = NoThread
  /\ buffers[1] # <<>>
  /\ Len(buffers[1]) < Len(buffers[2])

\* the positions of the log entries of symbol s, and of those with ok=1
EntriesOf(s) == {i \in 1..Len(PULL_LOG) : PULL_LOG[i].symbol = s}
OkEntriesOf(s) == {i \in EntriesOf(s) : PULL_LOG[i].ok = 1}

\* C30: after sequential fetch_quote_basic calls with a registry set the
\* pull log and the memo agree for every symbol: the log holds at most one
\* ok=1 entry for it, that entry is the symbol's last one and exists exactly
\* when the memo holds a record for the symbol, and a symbol memoized as
\* absent has one ok=0 entry per provider of the chain and no ok=1 entry.
C30_PullLogAgreesWithMemo ==
  \A s \in {strip(upper(x)) : x \in MoreSymbols} :
    /\ Cardinality(OkEntriesOf(s)) <= 1
    /\ \A i \in OkEntriesOf(s) : \A j \in EntriesOf(s) : j <= i
    /\ OkEntriesOf(s) # {} <=> (s \in DOMAIN MEMO /\ MEMO[s] # <<>>)
    /\ (s \in DOMAIN MEMO /\ MEMO[s] = <<>>) =>
         /\ OkEntriesOf(s) = {}
         /\ \A k \in 1..Len(Chain) :
              Cardinality({i \in EntriesOf(s) :
                             PULL_LOG[i].provider = Chain[k]}) = 1

\* "B" is memoized as absent after four failures, "A" holds the record that
\* yahoo_direct returned after finnhub had failed
C30_Witness ==
  /\ DOMAIN MEMO = {<<"A">>, <<"B">>}
  /\ MEMO[<<"B">>] = <<>> /\ MEMO[<<"A">>] # <<>>
  /\ Len(PULL_LOG) = 6
  /\ PULL_LOG[6].symbol = <<"A">> /\ PULL_LOG[6].provider = "yahoo_direct"
  /\ PULL_LOG[6].ok = 1

====
